---- MODULE Spec2Model ----
(***************************************************************************)
(* Model of the APK generator service (src/server.js): the POST /generate   *)
(* background pipeline of each job, the scratch area temp/ the jobs share,  *)
(* and the GET /download/:file route.                                       *)
(*                                                                          *)
(* File names are sequences of one-character strings, so that the prefix,   *)
(* substring and replace operations of the code are computed on the names   *)
(* the code builds.  Node runs one callback at a time: an action is the      *)
(* synchronous code between two awaits, and cur names the job whose          *)
(* continuation is running (0 when the event loop is idle).                  *)
(***************************************************************************)
EXTENDS Integers, Sequences, FiniteSets, TLC

\* ---------------------------------------------------------------- bounds
NumJobs == 2

\* ------------------------------------------------------- program constants
\* The entries of the sizes table of the icon stage.
NumBuckets == 5

Jobs == 1..NumJobs

\* ------------------------------------------------------- string helpers
StartsWith(s, p) == Len(p) <= Len(s) /\ SubSeq(s, 1, Len(p)) = p

Includes(s, p) == \E i \in 0..(Len(s) - Len(p)) : SubSeq(s, i + 1, i + Len(p)) = p

\* String.prototype.replace(pattern, r) with a string pattern: the first
\* occurrence only.
ReplaceFirst(s, p, r) ==
    IF Includes(s, p)
    THEN LET i == CHOOSE k \in 0..(Len(s) - Len(p)) :
                      /\ SubSeq(s, k + 1, k + Len(p)) = p
                      /\ \A m \in 0..(k - 1) : SubSeq(s, m + 1, m + Len(p)) # p
         IN SubSeq(s, 1, i) \o r \o SubSeq(s, i + Len(p) + 1, Len(s))
    ELSE s

Alnum == {"a", "b", "c", "d", "e", "f", "g", "h", "i", "j", "k", "l", "m", "n", "o", "p", "q", "r", "s", "t", "u", "v", "w", "x", "y", "z", "A", "B", "C", "D", "E", "F", "G", "H", "I", "J", "K", "L", "M", "N", "O", "P", "Q", "R", "S", "T", "U", "V", "W", "X", "Y", "Z", "0", "1", "2", "3", "4", "5", "6", "7", "8", "9"}

\* s.replace(/[^a-zA-Z0-9]/g, '-')
DashNonAlnum(s) == [i \in 1..Len(s) |-> IF s[i] \in Alnum THEN s[i] ELSE "-"]

\* Byte order of the characters that occur in scratch-area names.
CharOrder == <<"-", ".", "S", "_", "a", "b", "c", "d", "e", "g", "i", "j", "k", "l", "n", "o", "p", "r", "s", "t", "u", "w", "y">>

Ord(c) == CHOOSE i \in 1..Len(CharOrder) : CharOrder[i] = c

\* strcmp(a, b) < 0
StrLess(a, b) ==
    \E i \in 1..(Len(a) + 1) :
        /\ i <= Len(b)
        /\ SubSeq(a, 1, i - 1) = SubSeq(b, 1, i - 1)
        /\ (i = Len(a) + 1 \/ Ord(a[i]) < Ord(b[i]))

\* ------------------------------------------------------ scratch-area names
UnsignedPrefix == <<"u", "n", "s", "i", "g", "n", "e", "d", "-">>
SignedPrefix == <<"s", "i", "g", "n", "e", "d", "-">>
WorkPrefix == <<"w", "o", "r", "k", "-">>
KeystorePrefix == <<"k", "e", "y", "s", "t", "o", "r", "e", "_">>
ApkExt == <<".", "a", "p", "k">>
BinExt == <<".", "b", "i", "n">>
JksExt == <<".", "j", "k", "s">>
SignedWord == <<"s", "i", "g", "n", "e", "d">>
DefaultAppName == <<"G", "a", "l", "l", "e", "r", "y", "E", "y", "e">>
decodedBaseDir == <<"d", "e", "c", "o", "d", "e", "d", "_", "b", "a", "s", "e">>

\* Output names of uber-apk-signer for the input <name>.apk in --out: with the
\* built-in debug keystore, and with a keystore given by --ks.
DebugSignedSuffix == <<"-", "a", "l", "i", "g", "n", "e", "d", "-", "d", "e", "b", "u", "g", "S", "i", "g", "n", "e", "d", ".", "a", "p", "k">>
ReleaseSignedSuffix == <<"-", "a", "l", "i", "g", "n", "e", "d", "-", "s", "i", "g", "n", "e", "d", ".", "a", "p", "k">>

workDir(uuid) == WorkPrefix \o uuid
unsignedApkPath(uuid) == UnsignedPrefix \o uuid \o ApkExt
signedApkPath(uuid) == SignedPrefix \o uuid \o ApkExt
dynamicKeystore(uuid) == KeystorePrefix \o uuid \o JksExt
finalApkName(appName) == DashNonAlnum(IF appName # <<>> THEN appName ELSE DefaultAppName) \o ApkExt


\* ------------------------------------------------------------ request inputs
\* The identifiers of the requests: one, one that extends it, an unrelated one.
UuidA == <<"a">>
UuidAA == <<"a", "-", "a">>
UuidB == <<"b">>
UUIDs == {UuidA, UuidAA, UuidB}

MyCam == <<"M", "y", " ", "C", "a", "m">>

\* The request bodies: callbackUrl absent ("none"), an endpoint that answers
\* ("up") or one that never does ("silent"); with or without an icon file;
\* with or without appName.
Plain == [cb |-> "none", icon |-> FALSE, appName |-> MyCam]

Bodies ==
    {Plain,
     [cb |-> "up", icon |-> FALSE, appName |-> <<>>],
     [cb |-> "up", icon |-> TRUE, appName |-> MyCam],
     [cb |-> "silent", icon |-> FALSE, appName |-> <<>>]}

\* The identifiers of the j-th request: the first two requests carry the same
\* identifier, one that extends the other's, or unrelated ones.
UUIDsOf(j) == IF j = 1 THEN {UuidA, UuidAA} ELSE {UuidA, UuidB}

\* The workloads.  "serial": each request arrives after the job before it has
\* ended, with any body.  "overlap": the requests arrive at any time, with the
\* plain body.  "answered": as "serial", with the plain body or with the one
\* that has an image and a callback endpoint that answers.
BodiesOf(w) ==
    CASE w = "serial" -> Bodies
      [] w = "overlap" -> {Plain}
      [] w = "answered" -> {Plain, [cb |-> "up", icon |-> TRUE, appName |-> MyCam]}

\* ------------------------------------------------------------------- state
VARIABLES
    env,        \* process.env: which delivery strategies are configured
    fs,         \* the scratch area temp/: name -> content
    cur,        \* the job whose continuation is running, 0 when none is
    job,        \* per job: the locals of its background task
    touched,    \* <<actor, owner>>: in the last step, actor accessed a file of
                \* the running job owner
    delivered,  \* the URLs of the download route handed out so far
    dl,         \* the last response of the download route
    workload,   \* how the requests arrive: "serial" or "overlap"
    mutator,    \* the Mutator of one job seen file by file: its request, its
                \* working tree (file -> text), its position, the steps done
    injector,   \* the icon stage of one job seen file by file: the density
                \* folders of its working tree, the bucket it is at
    startup     \* initBaseApk: "decoding" while its apktool d is in flight

vars == <<env, fs, cur, job, touched, delivered, dl, workload, mutator, injector, startup>>

NoUrl == [via |-> "none", file |-> <<>>, filename |-> <<>>, body |-> 0]
NoDownload == [file |-> <<>>, status |-> 0, body |-> 0, saveAs |-> <<>>]

IdleJob ==
    [pc |-> "idle", uuid |-> <<>>, cb |-> "none", icon |-> FALSE, appName |-> <<>>,
     acks |-> 0, waiting |-> FALSE, lost |-> FALSE, outbox |-> <<>>, trail |-> <<>>,
     bucket |-> 0, useDynamicKey |-> FALSE, keygen |-> "none", identity |-> "none",
     signer |-> "none", sawOutput |-> FALSE, generated |-> <<>>, strategies |-> <<>>,
     downloadUrl |-> NoUrl, failedAt |-> "none"]

\* Beside the locals of the task (uuid, appName, useDynamicKey, generated,
\* downloadUrl, ...) a job records what happened to it: acks, the responses to
\* its request; outbox, the notifications posted; lost, whether a post of one
\* failed; trail, the stages entered;
\* keygen and signer, how keytool and the signer ended; sawOutput, whether a
\* file with a signer-output name was there at the lookup; strategies, the
\* delivery strategies that ran, with their results; failedAt, what threw.

GoneJob == [IdleJob EXCEPT !.pc = "gone"]

\* Contents of a scratch-area entry.  by: the job that produced the entry;
\* tree: the job whose working tree it was built from; ident: the identifier
\* in assets/uuid.txt; built: the job whose build made it; key: the identity
\* it is signed with ("none": unsigned).
TemplateTree == [kind |-> "base", by |-> 0, tree |-> 0, ident |-> <<>>, built |-> 0, key |-> "none"]
FreshTree(j) == [kind |-> "tree", by |-> j, tree |-> j, ident |-> <<>>, built |-> 0, key |-> "none"]
Keystore(j) == [kind |-> "ks", by |-> j, tree |-> 0, ident |-> <<>>, built |-> 0, key |-> "dynamic"]

\* The cache directory while the startup decode writes it: before and after
\* apktool.yml is there; a copy cp made of such a directory.
PartialBase == [TemplateTree EXCEPT !.kind = "partial"]
MarkedBase == [TemplateTree EXCEPT !.kind = "marked"]
EarlyCopy(j) == [FreshTree(j) EXCEPT !.kind = "early"]

Exists(f) == f \in DOMAIN fs

\* Lines 47, 105: fs.existsSync(path.join(decodedBaseDir, 'apktool.yml'))
isBaseValid == Exists(decodedBaseDir) /\ fs[decodedBaseDir].kind \in {"base", "marked"}

\* The scratch area holding the decoded template cache only.
CachedBase == [f \in {decodedBaseDir} |-> TemplateTree]

Remove(files, names) == [f \in (DOMAIN files) \ names |-> files[f]]

Put(files, name, content) ==
    [f \in (DOMAIN files) \cup {name} |-> IF f = name THEN content ELSE files[f]]

\* Spec follows the jobs through the scratch area and leaves the texts and the
\* icon files aside.
NoMutator == [at |-> "none"]
NoInjector == [at |-> "none"]

\* ------------------------------------------------------------ control flow
\* Program points at which the task awaits an external process or an upload.
IOWait == {"cp", "decode", "resize", "build", "keytool", "sign", "discord", "upload"}
Terminal == {"ready", "failed"}

StageOf(p) ==
    CASE p = "idle" -> "None"
      [] p = "cleanup" -> "Accepted"
      [] p \in {"cp", "decode"} -> "Preparing"
      [] p \in {"name", "package", "config", "obfuscate"} -> "Mutating"
      [] p \in {"icon", "resize"} -> "IconInjecting"
      [] p = "build" -> "Packaging"
      [] p \in {"keyprep", "keytool", "signprep", "sign", "find"} -> "Signing"
      [] p \in {"discord", "s2", "cloudcopy", "upload", "s3", "final"} -> "Publishing"
      [] p = "ready" -> "Ready"
      [] p = "failed" -> "Failed"

\* The task moves on to program point next.
Goto(r, next) ==
    [r EXCEPT !.pc = next,
              !.trail = IF StageOf(next) # StageOf(r.pc) THEN Append(@, StageOf(next)) ELSE @]

Progress(step) == [event |-> "apk_progress", data |-> step]
ReadyEvent(u) == [event |-> "apk_ready", data |-> u]
ErrorEvent(m) == [event |-> "apk_error", data |-> m]

\* await sendUpdate(event, data), then continue at next: with a callback
\* address the post is made and the task waits for it to settle.
sendUpdate(r, ev, next) ==
    IF r.cb = "none"
    THEN Goto(r, next)
    ELSE [Goto(r, next) EXCEPT !.outbox = Append(@, ev), !.waiting = TRUE]

\* Catch without the error notification.
CatchQuiet(r, cause) == Goto([r EXCEPT !.failedAt = cause], "failed")

\* catch (error): await sendUpdate('apk_error', ...), the end of the task.
Catch(r, cause) == sendUpdate([r EXCEPT !.failedAt = cause], ErrorEvent(cause), "failed")

\* The job that holds the event loop after job j's step left it in r.  (A task
\* that has ended returns at once: Return is its next step.)
Holder(r, j) == IF r.waiting \/ r.pc \in IOWait THEN 0 ELSE j

\* Job j is at program point p and its continuation can run.
At(j, p) ==
    /\ job[j].pc = p
    /\ ~job[j].waiting
    /\ cur = IF p \in IOWait THEN 0 ELSE j

Running(k) == job[k].pc \notin {"idle", "gone"} \cup Terminal

\* A working tree, an unsigned build artifact or an ephemeral keystore.
JobPrivate(c) == c.kind \in {"tree", "early", "ks"} \/ (c.kind = "apk" /\ c.key = "none")

\* The accesses by job j to working trees, unsigned artifacts and keystores
\* that another running job produced, among the entries it touches.
Touch(j, names) ==
    {<<j, fs[n].by>> : n \in {m \in names \cap DOMAIN fs :
        /\ JobPrivate(fs[m])
        /\ fs[m].by \in Jobs \ {j}
        /\ Running(fs[m].by)}}

Step(j, r, files, names) ==
    /\ job' = [job EXCEPT ![j] = r]
    /\ cur' = Holder(r, j)
    /\ fs' = files
    /\ touched' = Touch(j, names)
    /\ delivered' = delivered \cup (IF r.downloadUrl.via = "local" THEN {r.downloadUrl} ELSE {})
    /\ UNCHANGED <<env, dl, workload, mutator, injector, startup>>

\* ------------------------------------------------------------------- Init
Init ==
    /\ env \in [discord : BOOLEAN, cloudinary : BOOLEAN]
    /\ fs \in {Remove(CachedBase, {decodedBaseDir}), CachedBase}
    /\ cur = 0
    /\ job = [j \in Jobs |-> IdleJob]
    /\ touched = {}
    /\ delivered = {}
    /\ dl = NoDownload
    /\ workload \in {"serial", "overlap"}
    /\ mutator = NoMutator
    /\ injector = NoInjector
    /\ startup = "settled"

\* ------------------------------------------------ POST /generate: the task
\* Generate without the response to the request.
GenerateUnanswered(j, u, b) ==
    /\ cur = 0
    /\ job[j].pc = "idle"
    /\ \A k \in Jobs : k < j => job[k].pc # "idle"
    /\ workload # "overlap" => \A k \in Jobs \ {j} : job[k].pc \in {"idle", "gone"}
    /\ LET r == [job[j] EXCEPT !.uuid = u, !.cb = b.cb, !.icon = b.icon, !.appName = b.appName]
       IN Step(j, sendUpdate(r, Progress(10), "cleanup"), fs, {})

\* Lines 70-92: the request is acknowledged (202, 'Processing started') and the
\* task runs up to its first await.
Generate(j, u, b) ==
    /\ cur = 0
    /\ job[j].pc = "idle"
    /\ \A k \in Jobs : k < j => job[k].pc # "idle"
    /\ workload # "overlap" => \A k \in Jobs \ {j} : job[k].pc \in {"idle", "gone"}
    /\ LET r == [job[j] EXCEPT !.uuid = u, !.cb = b.cb, !.icon = b.icon,
                               !.appName = b.appName, !.acks = @ + 1]
       IN Step(j, sendUpdate(r, Progress(10), "cleanup"), fs, {})

\* Cleanup with the copy held back while the startup decode is in flight.
CleanupAfterStartup(j) ==
    /\ At(j, "cleanup")
    /\ LET u == job[j].uuid
           gone == {workDir(u), unsignedApkPath(u)}
       IN Step(j, sendUpdate(job[j], Progress(15),
                             IF isBaseValid /\ startup # "decoding" THEN "cp" ELSE "decode"),
               Remove(fs, gone), gone)

\* Lines 94-111: paths, start-of-job cleanup, the cache validity check.
Cleanup(j) ==
    /\ At(j, "cleanup")
    /\ LET u == job[j].uuid
           gone == {workDir(u), unsignedApkPath(u)}
       IN Step(j, sendUpdate(job[j], Progress(15),
                             IF isBaseValid THEN "cp" ELSE "decode"),
               Remove(fs, gone), gone)


\* Lines 109, 116: cp -r of the cache into the working tree has ended.  cp into
\* an existing directory copies beside its content and leaves that in place.
Copy(j, ok) ==
    /\ At(j, "cp")
    /\ LET w == workDir(job[j].uuid)
       IN IF ok /\ Exists(decodedBaseDir)
          THEN Step(j, sendUpdate(job[j], Progress(30), "name"),
                    IF Exists(w)
                    THEN fs
                    ELSE Put(fs, w, IF fs[decodedBaseDir].kind = "base"
                                    THEN FreshTree(j) ELSE EarlyCopy(j)), {w})
          ELSE Step(j, Catch(job[j], "copy"), fs, {})

\* Lines 112, 116: apktool d -f of the template into the working tree has ended.
Decode(j, ok) ==
    /\ At(j, "decode")
    /\ LET w == workDir(job[j].uuid)
       IN IF ok
          THEN Step(j, sendUpdate(job[j], Progress(30), "name"), Put(fs, w, FreshTree(j)), {w})
          ELSE Step(j, Catch(job[j], "decode"), fs, {})

\* CustomizeName announcing the next step with a lower percentage.
CustomizeNameSteppingBack(j) ==
    /\ At(j, "name")
    /\ Step(j, sendUpdate(job[j], Progress(25), "package"), fs,
            IF job[j].appName # <<>> THEN {workDir(job[j].uuid)} ELSE {})

\* Lines 117-127: the display name in res/values/strings.xml.
CustomizeName(j) ==
    /\ At(j, "name")
    /\ Step(j, sendUpdate(job[j], Progress(35), "package"), fs,
            IF job[j].appName # <<>> THEN {workDir(job[j].uuid)} ELSE {})

\* Lines 128-187: the package rename in the manifest, apktool.yml and smali.
RenamePackage(j) ==
    /\ At(j, "package")
    /\ Step(j, sendUpdate(job[j], Progress(45), "config"), fs, {workDir(job[j].uuid)})

\* Lines 188-230: assets/uuid.txt, assets/config.json and the permissions.
\* mkdirSync(assetsDir) throws when the working tree is gone.
InjectConfig(j) ==
    /\ At(j, "config")
    /\ LET u == job[j].uuid
           w == workDir(u)
       IN IF Exists(w)
          THEN Step(j, sendUpdate(job[j], Progress(50), "obfuscate"),
                    [fs EXCEPT ![w].ident = u], {w})
          ELSE Step(j, Catch(job[j], "config"), fs, {})

\* Obfuscate going on to the build whether or not an image came.
ObfuscateThenBuild(j) ==
    /\ At(j, "obfuscate")
    /\ Step(j, sendUpdate(job[j], Progress(70), "build"), fs, {workDir(job[j].uuid)})

\* Lines 232-277, 319: the rename table over the smali files, then the icon
\* stage if an image came with the request, else the build.
Obfuscate(j) ==
    /\ At(j, "obfuscate")
    /\ Step(j, IF job[j].icon
               THEN sendUpdate(job[j], Progress(60), "icon")
               ELSE sendUpdate(job[j], Progress(70), "build"),
            fs, {workDir(job[j].uuid)})


\* Lines 278-308: (first bucket: the adaptive-icon folder is deleted;) the next
\* density folder: if it exists its launcher icons are unlinked and the resize
\* is awaited, otherwise the loop moves on.
IconBucket(j) ==
    /\ At(j, "icon")
    /\ LET w == workDir(job[j].uuid)
           r == [job[j] EXCEPT !.bucket = @ + 1]
       IN IF Exists(w)
          THEN Step(j, Goto(r, "resize"), fs, {w})
          ELSE IF r.bucket = NumBuckets
               THEN Step(j, sendUpdate(r, Progress(70), "build"), fs, {})
               ELSE Step(j, r, fs, {})

\* Resize with a failed bucket tried again.
ResizeRetrying(j, ok) ==
    /\ At(j, "resize")
    /\ Step(j, IF ~ok
               THEN Goto([job[j] EXCEPT !.bucket = @ - 1], "icon")
               ELSE IF job[j].bucket = NumBuckets
                    THEN sendUpdate(job[j], Progress(70), "build")
                    ELSE Goto(job[j], "icon"),
            fs, IF ok THEN {workDir(job[j].uuid)} ELSE {})

\* Lines 308-319: the resize has settled: the two icons are written, or the
\* failure of this bucket is logged; then the next bucket or the build.
Resize(j, ok) ==
    /\ At(j, "resize")
    /\ Step(j, IF job[j].bucket = NumBuckets
               THEN sendUpdate(job[j], Progress(70), "build")
               ELSE Goto(job[j], "icon"),
            fs, IF ok THEN {workDir(job[j].uuid)} ELSE {})

\* The unsigned artifact apktool b makes of a working tree.
BuiltApk(j, t) ==
    [kind |-> "apk", by |-> j, tree |-> t.tree, ident |-> t.ident, built |-> j, key |-> "none"]

\* Lines 320-323: apktool b workDir -o unsignedApkPath has ended.
Build(j, ok) ==
    /\ At(j, "build")
    /\ LET u == job[j].uuid
           w == workDir(u)
       IN IF ok /\ Exists(w)
          THEN Step(j, sendUpdate(job[j], Progress(80), "keyprep"),
                    Put(fs, unsignedApkPath(u), BuiltApk(j, fs[w])), {w, unsignedApkPath(u)})
          ELSE Step(j, Catch(job[j], "build"), fs, {w})

\* Lines 326-349: the random identity, the old keystore of this identifier is
\* deleted, keytool is started.
KeyPrep(j) ==
    /\ At(j, "keyprep")
    /\ LET k == dynamicKeystore(job[j].uuid)
       IN Step(j, Goto(job[j], "keytool"), Remove(fs, {k}), {k})

\* Keytool with a failure of keytool rejecting the promise.
KeytoolFatal(j, ok) ==
    /\ At(j, "keytool")
    /\ LET k == dynamicKeystore(job[j].uuid)
       IN IF ok
          THEN Step(j, sendUpdate([job[j] EXCEPT !.useDynamicKey = TRUE, !.keygen = "ok"],
                                  Progress(90), "signprep"),
                    Put(fs, k, Keystore(j)), {k})
          ELSE Step(j, Catch([job[j] EXCEPT !.keygen = "failed"], "keytool"), fs, {})

\* Lines 349-365: keytool has ended or timed out.  An error resolves the
\* promise all the same, with useDynamicKey left false.
Keytool(j, ok) ==
    /\ At(j, "keytool")
    /\ LET k == dynamicKeystore(job[j].uuid)
       IN IF ok
          THEN Step(j, sendUpdate([job[j] EXCEPT !.useDynamicKey = TRUE, !.keygen = "ok"],
                                  Progress(90), "signprep"),
                    Put(fs, k, Keystore(j)), {k})
          ELSE Step(j, sendUpdate([job[j] EXCEPT !.keygen = "failed"], Progress(90), "signprep"),
                    fs, {})

\* Lines 366-379: the signer command: the ephemeral keystore if it was
\* generated and exists, else the signer's default identity.
SignPrep(j) ==
    /\ At(j, "signprep")
    /\ LET k == dynamicKeystore(job[j].uuid)
           id == IF job[j].useDynamicKey /\ Exists(k) THEN "dynamic" ELSE "default"
       IN Step(j, Goto([job[j] EXCEPT !.identity = id], "sign"), fs, {k})

\* The name uber-apk-signer gives its output in --out.
SignerOutput(u, id) ==
    UnsignedPrefix \o u \o (IF id = "dynamic" THEN ReleaseSignedSuffix ELSE DebugSignedSuffix)

\* Lines 378-380: the signer has ended: with its output written ("signed"),
\* with exit code 0 and no output ("silent"), or with an error or the timeout.
Sign(j, outcome) ==
    /\ At(j, "sign")
    /\ LET u == job[j].uuid
           in == unsignedApkPath(u)
           k == dynamicKeystore(u)
           used == {in} \cup (IF job[j].identity = "dynamic" THEN {k} ELSE {})
       IN CASE outcome = "signed" /\ used \subseteq DOMAIN fs ->
                 Step(j, Goto([job[j] EXCEPT !.signer = "signed"], "find"),
                      Put(fs, SignerOutput(u, job[j].identity),
                          [fs[in] EXCEPT !.by = j, !.key = job[j].identity]), used)
            [] outcome = "silent" ->
                 Step(j, Goto([job[j] EXCEPT !.signer = "silent"], "find"), fs, used)
            [] OTHER ->
                 Step(j, Catch([job[j] EXCEPT !.signer = "error"], "sign"), fs, used)


SignedOutputs(u) == {SignerOutput(u, "default"), SignerOutput(u, "dynamic")}

\* Line 383: fs.readdirSync(tempDir) lists the names in strcmp order (libuv's
\* scandir sorts them); First is the one find() meets first.
First(names) == CHOOSE f \in names : \A g \in names \ {f} : StrLess(f, g)

\* Line 384: the names that pass the test of find().
Candidates(files, u) ==
    {f \in DOMAIN files : StartsWith(f, UnsignedPrefix \o u) /\ Includes(f, SignedWord)}

\* Lines 383-393, 462: the signer's output is looked up; without one the task
\* throws, with one the first strategy starts if its webhook is configured.
FindOutput(j) ==
    /\ At(j, "find")
    /\ LET c == Candidates(fs, job[j].uuid)
       IN IF c = {}
          THEN Step(j, Catch(job[j], "nooutput"), fs, {})
          ELSE LET r == [job[j] EXCEPT !.generated = First(c), !.downloadUrl = NoUrl,
                                       !.sawOutput = SignedOutputs(job[j].uuid) \cap DOMAIN fs # {}]
               IN Step(j, IF env.discord
                          THEN sendUpdate(r, Progress(95), "discord")
                          ELSE Goto(r, "s2"),
                       fs, {})

Ran(strategy, result) == [s |-> strategy, result |-> result]

\* Lines 394-410: the post of the file to the webhook has settled: with an
\* attachment link, with a response that has none, or with an error (caught).
Discord(j, res) ==
    /\ At(j, "discord")
    /\ LET g == job[j].generated
       IN IF res = "link" /\ Exists(g)
          THEN Step(j, Goto([job[j] EXCEPT !.downloadUrl =
                                [via |-> "discord", file |-> g,
                                 filename |-> finalApkName(job[j].appName), body |-> fs[g]],
                                           !.strategies = Append(@, Ran(1, "link"))],
                            "s2"), fs, {g})
          ELSE Step(j, Goto([job[j] EXCEPT !.strategies =
                                Append(@, Ran(1, IF res = "nolink" /\ Exists(g)
                                                 THEN "nolink" ELSE "throw"))],
                            "s2"), fs, {g})

\* Strategy2 without the test of downloadUrl.
Strategy2Always(j) ==
    /\ At(j, "s2")
    /\ Step(j, IF env.cloudinary
               THEN sendUpdate(job[j], Progress(95), "cloudcopy")
               ELSE Goto(job[j], "s3"),
            fs, {})

\* Lines 413-415: the second strategy runs if there is no URL yet and the
\* object storage is configured.
Strategy2(j) ==
    /\ At(j, "s2")
    /\ Step(j, IF job[j].downloadUrl = NoUrl /\ env.cloudinary
               THEN sendUpdate(job[j], Progress(95), "cloudcopy")
               ELSE Goto(job[j], "s3"),
            fs, {})

\* Line 424: signedPath.replace('.apk', '.bin')
binPath(g) == ReplaceFirst(g, ApkExt, BinExt)

\* Lines 417-427: the copy under the neutral extension; the upload starts.  A
\* failing copy is caught with the rest of the strategy.
CloudCopy(j) ==
    /\ At(j, "cloudcopy")
    /\ LET g == job[j].generated
       IN IF Exists(g)
          THEN Step(j, Goto(job[j], "upload"), Put(fs, binPath(g), fs[g]), {g, binPath(g)})
          ELSE Step(j, Goto([job[j] EXCEPT !.strategies = Append(@, Ran(2, "throw"))], "s3"),
                    fs, {})

\* Lines 427-443: the upload has settled: with the secure URL, and the copy is
\* unlinked, or with an error (caught, the copy stays).
Upload(j, ok) ==
    /\ At(j, "upload")
    /\ LET b == binPath(job[j].generated)
       IN IF ok /\ Exists(b)
          THEN Step(j, Goto([job[j] EXCEPT !.downloadUrl =
                                [via |-> "cloudinary", file |-> b,
                                 filename |-> finalApkName(job[j].appName), body |-> fs[b]],
                                           !.strategies = Append(@, Ran(2, "url"))],
                            "s3"), Remove(fs, {b}), {b})
          ELSE Step(j, Goto([job[j] EXCEPT !.strategies = Append(@, Ran(2, "throw"))], "s3"),
                    fs, {b})

\* Lines 446-456: without a URL the file is moved to signed-<uuid>.apk and the
\* URL is that of the download route (a failing rename is not caught here);
\* then the ready notification.
Strategy3(j) ==
    /\ At(j, "s3")
    /\ LET g == job[j].generated
           s == signedApkPath(job[j].uuid)
           local == [via |-> "local", file |-> s,
                     filename |-> finalApkName(job[j].appName), body |-> fs[g]]
       IN IF job[j].downloadUrl # NoUrl
          THEN Step(j, sendUpdate(job[j], ReadyEvent(job[j].downloadUrl), "final"), fs, {})
          ELSE IF Exists(g)
               THEN Step(j, sendUpdate([job[j] EXCEPT !.downloadUrl = local,
                                                      !.strategies = Append(@, Ran(3, "url"))],
                                       ReadyEvent(local), "final"),
                         Put(Remove(fs, {g}), s, fs[g]), {g, s})
               ELSE Step(j, Catch([job[j] EXCEPT !.strategies = Append(@, Ran(3, "throw"))],
                                  "rename"), fs, {})

\* FinalCleanup leaving the unsigned artifact in place.
FinalCleanupKeepsUnsigned(j) ==
    /\ At(j, "final")
    /\ LET u == job[j].uuid
       IN IF Exists(unsignedApkPath(u))
          THEN Step(j, Goto(job[j], "ready"), Remove(fs, {workDir(u)}),
                    {workDir(u), unsignedApkPath(u)})
          ELSE Step(j, Catch(job[j], "cleanup"), Remove(fs, {workDir(u)}), {workDir(u)})

\* Lines 458-460: the success-path cleanup; unlinkSync throws when the
\* unsigned artifact is no longer there.
FinalCleanup(j) ==
    /\ At(j, "final")
    /\ LET u == job[j].uuid
       IN IF Exists(unsignedApkPath(u))
          THEN Step(j, Goto(job[j], "ready"), Remove(fs, {workDir(u), unsignedApkPath(u)}),
                    {workDir(u), unsignedApkPath(u)})
          ELSE Step(j, Catch(job[j], "cleanup"), Remove(fs, {workDir(u)}), {workDir(u)})

\* Response with a failed post thrown on into the task.
ResponseThrows(j, ok) ==
    /\ cur = 0
    /\ job[j].waiting
    /\ job[j].cb = "up"
    /\ job' = [job EXCEPT ![j] =
                 IF ok \/ job[j].pc = "failed"
                 THEN [@ EXCEPT !.waiting = FALSE, !.lost = @ \/ ~ok]
                 ELSE Goto([@ EXCEPT !.waiting = FALSE, !.lost = TRUE, !.failedAt = "notify"],
                           "failed")]
    /\ cur' = Holder(job'[j], j)
    /\ touched' = {}
    /\ UNCHANGED <<env, fs, delivered, dl, workload, mutator, injector, startup>>

\* Lines 83-87: the post of a notification has settled: delivered, or failed,
\* and then the failure is logged and swallowed.  An endpoint that stays
\* silent never settles it.
Response(j, ok) ==
    /\ cur = 0
    /\ job[j].waiting
    /\ job[j].cb = "up"
    /\ job' = [job EXCEPT ![j].waiting = FALSE, ![j].lost = @ \/ ~ok]
    /\ cur' = Holder(job'[j], j)
    /\ touched' = {}
    /\ UNCHANGED <<env, fs, delivered, dl, workload, mutator, injector, startup>>

\* The task has ended and its locals are dropped.
Return(j) ==
    /\ cur = j
    /\ job[j].pc \in Terminal
    /\ ~job[j].waiting
    /\ job' = [job EXCEPT ![j] = GoneJob]
    /\ cur' = 0
    /\ touched' = {}
    /\ UNCHANGED <<env, fs, delivered, dl, workload, mutator, injector, startup>>

\* ------------------------------------------------------ GET /download/:file
\* Line 475: req.query.filename || 'app.apk'
downloadName(filename) == IF filename # <<>> THEN filename ELSE <<"a", "p", "p", ".", "a", "p", "k">>

\* An entry of the scratch area that is a directory.
IsDirectory(c) == c.kind \in {"base", "partial", "marked", "tree", "early"}

\* Lines 473-481: the name is joined to temp/; what exists there is sent by
\* res.download, which passes a directory on and so ends in Not Found.
Download(file, filename) ==
    /\ cur = 0
    /\ dl' = IF Exists(file) /\ ~IsDirectory(fs[file])
             THEN [file |-> file, status |-> 200, body |-> fs[file],
                   saveAs |-> downloadName(filename)]
             ELSE [file |-> file, status |-> 404, body |-> 0, saveAs |-> <<>>]
    /\ touched' = {}
    /\ UNCHANGED <<env, fs, cur, job, delivered, workload, mutator, injector, startup>>

\* -------------------------------------------------------------------- Next
JobStep(j) ==
    \/ \E u \in UUIDsOf(j), b \in BodiesOf(workload) : Generate(j, u, b)
    \/ Cleanup(j)
    \/ \E ok \in BOOLEAN : Copy(j, ok)
    \/ \E ok \in BOOLEAN : Decode(j, ok)
    \/ CustomizeName(j)
    \/ RenamePackage(j)
    \/ InjectConfig(j)
    \/ Obfuscate(j)
    \/ IconBucket(j)
    \/ \E ok \in BOOLEAN : Resize(j, ok)
    \/ \E ok \in BOOLEAN : Build(j, ok)
    \/ KeyPrep(j)
    \/ \E ok \in BOOLEAN : Keytool(j, ok)
    \/ SignPrep(j)
    \/ \E o \in {"signed", "silent", "error"} : Sign(j, o)
    \/ FindOutput(j)
    \/ \E res \in {"link", "nolink", "throw"} : Discord(j, res)
    \/ Strategy2(j)
    \/ CloudCopy(j)
    \/ \E ok \in BOOLEAN : Upload(j, ok)
    \/ Strategy3(j)
    \/ FinalCleanup(j)
    \/ \E ok \in BOOLEAN : Response(j, ok)
    \/ Return(j)

Next ==
    \/ \E j \in Jobs : JobStep(j)
    \/ \E q \in delivered : Download(q.file, q.filename)

Spec == Init /\ [][Next]_vars


\* =================================================================== claims
Published(j) == job[j].pc \in {"final", "ready"}

Results(j) == {job[j].strategies[i] : i \in 1..Len(job[j].strategies)}

Posted(j, kind) == {i \in 1..Len(job[j].outbox) : job[j].outbox[i].event = kind}

\* C1: delivery precedence.  Once the Publisher of a job is done: if the webhook
\* relay returned a link, the URL of the job (the one of its ready
\* notification) is that link and no other strategy ran; if the relay was not
\* configured, threw or returned no link and the object storage returned its
\* secure URL, the URL is that one and the local fallback did not run.
C1_DeliveryPrecedence ==
    \A j \in Jobs : Published(j) =>
        /\ Ran(1, "link") \in Results(j) =>
              /\ job[j].downloadUrl.via = "discord"
              /\ job[j].strategies = <<Ran(1, "link")>>
        /\ (Ran(1, "link") \notin Results(j) /\ Ran(2, "url") \in Results(j)) =>
              /\ job[j].downloadUrl.via = "cloudinary"
              /\ \A r \in Results(j) : r.s # 3
        /\ job[j].cb # "none" =>
              job[j].outbox[Len(job[j].outbox)] = ReadyEvent(job[j].downloadUrl)

\* A job whose relay threw and whose upload to the object storage gave the URL.
C1_Witness ==
    \E j \in Jobs :
        /\ job[j].pc = "ready"
        /\ env.discord /\ env.cloudinary
        /\ job[j].strategies = <<Ran(1, "throw"), Ran(2, "url")>>
        /\ job[j].downloadUrl.via = "cloudinary"

\* C2: signing has no fallback.  If the signer failed or timed out, or ended
\* with success while the scratch area holds no file with a signer-output name
\* for the job, the job is not published and has posted no ready notification.
C2_SigningHasNoFallback ==
    \A j \in Jobs :
        (\/ job[j].signer = "error"
         \/ job[j].signer = "silent" /\ job[j].generated # <<>> /\ ~job[j].sawOutput) =>
            /\ ~Published(j)
            /\ Posted(j, "apk_ready") = {}

\* C3: signing fallback.  A job whose key generation failed goes on to the
\* signer with the default identity: the failure itself never throws, and such
\* a job that is Ready has posted its ready notification.
C3_SigningFallback ==
    \A j \in Jobs : job[j].keygen = "failed" =>
        /\ ~job[j].useDynamicKey
        /\ job[j].identity \in {"none", "default"}
        /\ job[j].pc \in {"signprep", "sign"} =>
              job[j].failedAt = "none" /\ job[j].signer = "none"
        /\ job[j].pc \notin {"signprep"} => job[j].identity = "default"
        /\ job[j].failedAt \notin {"copy", "decode", "config", "build", "keytool"}
        /\ (job[j].pc = "ready" /\ job[j].cb # "none") =>
              /\ Posted(j, "apk_ready") # {}
              /\ Posted(j, "apk_error") = {}

\* A job whose key generation failed is Ready, with an artifact signed with the
\* default identity, and has posted the ready notification.
C3_Witness ==
    \E j \in Jobs :
        /\ job[j].keygen = "failed"
        /\ job[j].signer = "signed"
        /\ job[j].pc = "ready"
        /\ job[j].cb = "up"
        /\ job[j].downloadUrl.body.key = "default"
        /\ Posted(j, "apk_ready") # {}

\* C4: isolation of concurrent jobs.  No step of a job reads, writes or deletes
\* the working tree, the unsigned artifact or the keystore of another running
\* job.
C4_JobsDoNotShareFiles == touched = {}

\* C5: no cross-contamination.  Of two running jobs with distinct identifiers,
\* neither selects as its signed output a file the other one produced.
C5_NoCrossContamination ==
    \A j \in Jobs : \A k \in Jobs \ {j} :
        (/\ Running(j) /\ Running(k)
         /\ job[j].uuid # job[k].uuid
         /\ job[j].generated # <<>>
         /\ Exists(job[j].generated)) =>
            fs[job[j].generated].by # k

\* The stages in their order, for a request with and without a source image.
StageOrder(icon) ==
    IF icon
    THEN <<"Accepted", "Preparing", "Mutating", "IconInjecting", "Packaging", "Signing", "Publishing", "Ready">>
    ELSE <<"Accepted", "Preparing", "Mutating", "Packaging", "Signing", "Publishing", "Ready">>

\* The stages a job entered before it failed, or all those it entered.
Traversed(j) ==
    LET t == job[j].trail
    IN IF t # <<>> /\ t[Len(t)] = "Failed" THEN SubSeq(t, 1, Len(t) - 1) ELSE t

\* C6: stage order.  The stages a job has entered are an initial part of
\* Accepted, Preparing, Mutating, (IconInjecting,) Packaging, Signing,
\* Publishing, Ready, then possibly Failed: none is skipped or repeated, and
\* IconInjecting is among them only, and always, for a request with an image.
C6_StageOrder ==
    \A j \in Jobs : job[j].pc \notin {"idle", "gone"} =>
        /\ Len(Traversed(j)) \in 1..Len(StageOrder(job[j].icon))
        /\ Traversed(j) = SubSeq(StageOrder(job[j].icon), 1, Len(Traversed(j)))
        /\ job[j].trail[Len(job[j].trail)] = StageOf(job[j].pc)

\* A job of a request with an image is Ready after all the eight stages.
C6_Witness ==
    \E j \in Jobs :
        /\ job[j].icon
        /\ job[j].pc = "ready"
        /\ job[j].bucket = NumBuckets
        /\ job[j].trail = StageOrder(TRUE)

\* C7: fatal errors.  A job that has failed entered Failed last, has posted
\* exactly one error notification, as its last one, if the request had a
\* callback address and none otherwise; from Failed it takes no further
\* pipeline step and posts nothing more.
C7_FailOnce ==
    /\ [](\A j \in Jobs : job[j].pc = "failed" =>
            /\ job[j].failedAt # "none"
            /\ job[j].trail[Len(job[j].trail)] = "Failed"
            /\ Cardinality({i \in 1..(Len(job[j].trail) - 1) : job[j].trail[i] = "Failed"}) = 0
            /\ job[j].cb = "none" => job[j].outbox = <<>>
            /\ job[j].cb # "none" =>
                  /\ Posted(j, "apk_error") = {Len(job[j].outbox)}
                  /\ job[j].outbox[Len(job[j].outbox)] = ErrorEvent(job[j].failedAt))
    /\ [][\A j \in Jobs : job[j].pc = "failed" =>
            /\ job'[j].pc \in {"failed", "gone"}
            /\ job'[j].pc = "failed" => job'[j].outbox = job[j].outbox]_vars
    /\ [](\A j \in Jobs : job[j].pc # "failed" => Posted(j, "apk_error") = {})

\* A job with a callback address whose build failed has posted its one error
\* notification.
C7_Witness ==
    \E j \in Jobs :
        /\ job[j].pc = "failed"
        /\ job[j].failedAt = "build"
        /\ job[j].cb = "up"
        /\ Cardinality(Posted(j, "apk_error")) = 1

\* C8: cleanup on success.  When a job is Ready, the scratch area holds neither
\* its working tree nor its unsigned artifact.
C8_ReadyIsClean ==
    \A j \in Jobs : job[j].pc = "ready" =>
        /\ ~Exists(workDir(job[j].uuid))
        /\ ~Exists(unsignedApkPath(job[j].uuid))

\* A job is Ready by the local fallback, with its signed artifact kept.
C8_Witness ==
    \E j \in Jobs :
        /\ job[j].pc = "ready"
        /\ job[j].signer = "signed"
        /\ job[j].downloadUrl.via = "local"
        /\ Exists(signedApkPath(job[j].uuid))

\* C9: the local fallback.  When a job is Ready by the local fallback, the
\* scratch area holds under signed-<identifier>.apk the signed artifact of the
\* job, the delivered URL names that file, its suggested file name is the
\* display name (GalleryEye without one) with "-" for every character that is
\* not a letter or a digit, and the extension; and a download by a delivered
\* URL is answered with a signed artifact under its suggested name, not with
\* Not Found.
C9_LocalFallbackServes ==
    /\ \A j \in Jobs : (job[j].pc = "ready" /\ job[j].downloadUrl.via = "local") =>
          LET s == signedApkPath(job[j].uuid)
          IN /\ job[j].downloadUrl.file = s
             /\ job[j].downloadUrl.filename =
                   (IF job[j].appName = MyCam
                    THEN <<"M", "y", "-", "C", "a", "m", ".", "a", "p", "k">>
                    ELSE <<"G", "a", "l", "l", "e", "r", "y", "E", "y", "e", ".", "a", "p", "k">>)
             /\ Exists(s)
             /\ fs[s].key # "none"
             /\ fs[s].built = j
    /\ dl.status # 0 =>
          /\ dl.status = 200
          /\ dl.body.key # "none"
          /\ \E q \in delivered : dl.file = q.file /\ dl.saveAs = q.filename

\* The scheduling of the event loop: a continuation that can run does run, and
\* an external process or a request that can settle does settle.
FairSpec == Spec /\ \A j \in Jobs : WF_vars(JobStep(j))

\* C10: notifications do not block.  Under FairSpec every job that was started
\* ends, Ready or Failed, whether or not the callback endpoint answers.
C10_NotificationsDoNotBlock ==
    \A j \in Jobs : (job[j].pc # "idle") ~> (job[j].pc \in Terminal \cup {"gone"})

\* C11: notifications are fire-and-forget.  When the post of a notification
\* settles, delivered or failed, the task goes on from where it was: nothing
\* is posted again, and program point, stages and failure are as they were.  A
\* job without a callback address posts nothing and waits for no post.
C11_FireAndForget ==
    /\ [](\A j \in Jobs : job[j].cb = "none" =>
            job[j].outbox = <<>> /\ ~job[j].waiting /\ ~job[j].lost)
    /\ [][\A j \in Jobs : (job[j].waiting /\ ~job'[j].waiting) =>
            job'[j] = [job[j] EXCEPT !.waiting = FALSE, !.lost = job'[j].lost]]_vars
    /\ [][\A j \in Jobs : (job[j].pc \notin {"idle", "gone"} /\ job'[j].pc # "gone") =>
            /\ Len(job'[j].outbox) \in {Len(job[j].outbox), Len(job[j].outbox) + 1}
            /\ Len(job'[j].outbox) > Len(job[j].outbox) =>
                  job'[j].waiting /\ ~job[j].waiting /\ job'[j].pc # job[j].pc]_vars

\* A job one of whose notifications failed to be delivered is Ready all the
\* same, the ready notification posted.
C11_Witness ==
    \E j \in Jobs :
        /\ job[j].lost
        /\ job[j].pc = "ready"
        /\ job[j].signer = "signed"
        /\ Posted(j, "apk_ready") # {}

\* C12: progress is monotone.  In the notifications of a job, a progress
\* notification carries a percentage no lower than the one before it, and
\* comes after no ready or error notification.
C12_ProgressMonotone ==
    \A j \in Jobs : \A i \in Posted(j, "apk_progress") :
        /\ job[j].outbox[i].data \in 0..100
        /\ \A h \in 1..(i - 1) :
              /\ job[j].outbox[h].event = "apk_progress"
              /\ job[j].outbox[h].data <= job[j].outbox[i].data

\* A job with an image that tried both remote strategies has posted all its
\* progress notifications and the ready one.
C12_Witness ==
    \E j \in Jobs :
        /\ job[j].pc = "ready"
        /\ job[j].icon
        /\ Len(job[j].strategies) >= 2
        /\ Cardinality(Posted(j, "apk_progress")) = 12
        /\ Posted(j, "apk_ready") = {13}

\* C13: the acknowledgment.  A request is answered once, in the step that
\* starts its job, when nothing of the pipeline has run: no file is touched,
\* there is neither URL nor failure to report; the answer is there whatever
\* becomes of the job, and no later step answers the request again.
C13_AcknowledgedOnce ==
    /\ [](\A j \in Jobs :
            /\ job[j].pc = "idle" => job[j].acks = 0 /\ job[j].outbox = <<>>
            /\ job[j].pc \notin {"idle", "gone"} => job[j].acks = 1)
    /\ [][\A j \in Jobs : (job[j].pc = "idle" /\ job'[j].pc # "idle") =>
            /\ job'[j].acks = 1
            /\ job'[j].pc = "cleanup"
            /\ job'[j].downloadUrl = NoUrl /\ job'[j].failedAt = "none"
            /\ fs' = fs]_vars
    /\ [][\A j \in Jobs : (job[j].pc # "idle" /\ job'[j].pc # "gone") =>
            job'[j].acks = job[j].acks]_vars

\* The request of a job that failed at the signer has its one answer.
C13_Witness ==
    \E j \in Jobs :
        /\ job[j].pc = "failed"
        /\ job[j].failedAt = "sign"
        /\ job[j].acks = 1

\* ===================================================== the Mutator on texts
\* A text is a sequence of tokens: single characters, and the atoms below,
\* each standing for a run of characters that no pattern of the code matches
\* in part.
MatchAt(s, p, i) == i + Len(p) <= Len(s) /\ SubSeq(s, i + 1, i + Len(p)) = p

Contains(s, p) == \E i \in 0..(Len(s) - Len(p)) : MatchAt(s, p, i)

\* s.replace(new RegExp(p, 'g'), r) for a pattern p that matches itself only
\* and a replacement r without "$": every match, left to right, none rescanned.
RECURSIVE ReplaceAll(_, _, _)
ReplaceAll(s, p, r) ==
    IF Len(s) < Len(p) \/ p = <<>>
    THEN s
    ELSE IF MatchAt(s, p, 0)
         THEN r \o ReplaceAll(SubSeq(s, Len(p) + 1, Len(s)), p, r)
         ELSE <<s[1]>> \o ReplaceAll(Tail(s), p, r)

UpperCase == <<"A", "B", "C", "D", "E", "F", "G", "H", "I", "J", "K", "L", "M", "N", "O", "P", "Q", "R", "S", "T", "U", "V", "W", "X", "Y", "Z">>
LowerCase == <<"a", "b", "c", "d", "e", "f", "g", "h", "i", "j", "k", "l", "m", "n", "o", "p", "q", "r", "s", "t", "u", "v", "w", "x", "y", "z">>

toLowerCase(s) ==
    [i \in 1..Len(s) |->
        IF \E k \in 1..26 : UpperCase[k] = s[i]
        THEN LowerCase[CHOOSE k \in 1..26 : UpperCase[k] = s[i]]
        ELSE s[i]]

IsLowerLetter(c) == \E k \in 1..26 : LowerCase[k] = c

\* Line 133: (appName || 'app').toLowerCase().replace(/[^a-z]/g, ''), and
\* 'gallery' for a result shorter than three letters.
cleanAppName(appName) ==
    LET c == SelectSeq(toLowerCase(IF appName # <<>> THEN appName ELSE <<"a", "p", "p">>),
                       IsLowerLetter)
    IN IF Len(c) < 3 THEN <<"g", "a", "l", "l", "e", "r", "y">> ELSE c

oldPackageName == <<"c", "o", "m", ".", "h", "4", "k", "3", "r", ".", "g", "a", "l", "l", "e", "r", "y", "e", "y", "e">>

newPackageName(appName, randomSuffix) ==
    <<"c", "o", "m", ".">> \o cleanAppName(appName) \o <<".">> \o randomSuffix

\* oldPackageName.replace(/\./g, '/') and newPackageName.replace(/\./g, '/')
Slashed(name) == ReplaceAll(name, <<".">>, <<"/">>)

\* Lines 147-160: the manifest and apktool.yml: the dotted form.
RenameDotted(content, new) == ReplaceAll(content, oldPackageName, new)

\* Lines 174-177: a smali file: the path form, then the dotted form.
RenameUnit(content, new) ==
    ReplaceAll(ReplaceAll(content, Slashed(oldPackageName), Slashed(new)), oldPackageName, new)

\* ---- the display name
OpenTag == "<string name=\"app_name\">"
CloseTag == "</string>"
LineTerminators == {"\n", "\r"}

\* /<string name="app_name">.*?<\/string>/ matches at i up to j: the tag at i,
\* then as few characters as possible, none a line terminator, up to the
\* closing tag at j.
TagMatch(s, i, j) ==
    /\ s[i] = OpenTag
    /\ j > i
    /\ s[j] = CloseTag
    /\ \A k \in (i + 1)..(j - 1) : s[k] \notin LineTerminators \cup {CloseTag}

TagMatches(s) == {m \in (1..Len(s)) \X (1..Len(s)) : TagMatch(s, m[1], m[2])}

\* The replacement text of String.prototype.replace: $$ is "$", $& the match,
\* $` the text before it, $' the text after it (the pattern has no groups).
RECURSIVE GetSubstitution(_, _, _, _)
GetSubstitution(r, matched, before, after) ==
    IF r = <<>>
    THEN <<>>
    ELSE IF r[1] = "$" /\ Len(r) >= 2 /\ r[2] \in {"$", "&", "`", "'"}
         THEN (CASE r[2] = "$" -> <<"$">>
                 [] r[2] = "&" -> matched
                 [] r[2] = "`" -> before
                 [] r[2] = "'" -> after)
              \o GetSubstitution(SubSeq(r, 3, Len(r)), matched, before, after)
         ELSE <<r[1]>> \o GetSubstitution(Tail(r), matched, before, after)

\* Line 121: content.replace(/<string name="app_name">.*?<\/string>/,
\* `<string name="app_name">${appName}</string>`): the first match only.
ReplaceAppName(s, appName) ==
    IF TagMatches(s) = {}
    THEN s
    ELSE LET m == CHOOSE x \in TagMatches(s) : \A y \in TagMatches(s) : x[1] <= y[1]
             before == SubSeq(s, 1, m[1] - 1)
             after == SubSeq(s, m[2] + 1, Len(s))
         IN before
            \o GetSubstitution(<<OpenTag>> \o appName \o <<CloseTag>>,
                               SubSeq(s, m[1], m[2]), before, after)
            \o after

\* ---- the permissions
Anchor == "<uses-permission android:name=\"android.permission.FOREGROUND_SERVICE\""
ReadSms == "    <uses-permission android:name=\"android.permission.READ_SMS\" />\n"
ReadContacts == "    <uses-permission android:name=\"android.permission.READ_CONTACTS\" />\n"

\* Lines 206-224: the declarations asked for, inserted before the anchor.
AddPermissions(s, sms, contacts) ==
    LET permissionsToAdd == (IF sms = "true" THEN <<ReadSms>> ELSE <<>>)
                            \o (IF contacts = "true" THEN <<ReadContacts>> ELSE <<>>)
    IN IF \E i \in 1..Len(s) : s[i] = Anchor
       THEN LET at == CHOOSE i \in 1..Len(s) : s[i] = Anchor /\ \A k \in 1..(i - 1) : s[k] # Anchor
            IN SubSeq(s, 1, at - 1) \o permissionsToAdd \o SubSeq(s, at, Len(s))
       ELSE s

\* ---- the cosmetic renames
suspiciousRenames ==
    <<<<<<"S", "o", "c", "k", "e", "t", "M", "a", "n", "a", "g", "e", "r">>, <<"C", "l", "o", "u", "d", "S", "e", "r", "v", "i", "c", "e">>>>,
      <<<<"S", "m", "s", "C", "o", "n", "t", "a", "c", "t", "M", "a", "n", "a", "g", "e", "r">>, <<"D", "a", "t", "a", "H", "e", "l", "p", "e", "r">>>>,
      <<<<"D", "a", "t", "a", "S", "y", "n", "c", "H", "e", "l", "p", "e", "r">>, <<"S", "y", "n", "c", "U", "t", "i", "l">>>>,
      <<<<"K", "e", "e", "p", "A", "l", "i", "v", "e", "S", "e", "r", "v", "i", "c", "e">>, <<"A", "p", "p", "S", "e", "r", "v", "i", "c", "e">>>>,
      <<<<"G", "a", "l", "l", "e", "r", "y", "E", "y", "e">>, <<"M", "e", "d", "i", "a", "A", "p", "p">>>>,
      <<<<"g", "a", "l", "l", "e", "r", "y", "e", "y", "e">>, <<"m", "e", "d", "i", "a", "a", "p", "p">>>>>>

\* A call of Log.d, Log.e, Log.i and one of Log.w, with registers and
\* arguments; what the code puts in place of the first three.
LogD == "invoke-static {v0, v1}, Landroid/util/Log;->d(Ljava/lang/String;Ljava/lang/String;)I"
LogE == "invoke-static {v0, v1}, Landroid/util/Log;->e(Ljava/lang/String;Ljava/lang/String;)I"
LogI == "invoke-static {v0, v1}, Landroid/util/Log;->i(Ljava/lang/String;Ljava/lang/String;)I"
LogW == "invoke-static {v0, v1}, Landroid/util/Log;->w(Ljava/lang/String;Ljava/lang/String;)I"
LogRemoved == "# log removed"

RECURSIVE ApplyRenames(_, _)
ApplyRenames(content, k) ==
    IF k > Len(suspiciousRenames)
    THEN content
    ELSE ApplyRenames(ReplaceAll(content, suspiciousRenames[k][1], suspiciousRenames[k][2]), k + 1)

\* Lines 251-262: a smali file: the rename table in its order, then the calls
\* of Log.d, Log.e and Log.i.
ObfuscateUnit(content) ==
    ReplaceAll(ReplaceAll(ReplaceAll(ApplyRenames(content, 1),
        <<LogD>>, <<LogRemoved>>), <<LogE>>, <<LogRemoved>>), <<LogI>>, <<LogRemoved>>)

\* ---- the working tree of the Mutator
\* The files of a working tree: root is the directory below workDir.
ManifestXml == [root |-> "", name |-> "AndroidManifest.xml"]
ApktoolYml == [root |-> "", name |-> "apktool.yml"]
StringsXml == [root |-> "res", name |-> "values/strings.xml"]
LayoutXml == [root |-> "res", name |-> "layout/activity_main.xml"]
MainUnit == [root |-> "smali", name |-> "com/h4k3r/galleryeye/SocketManager.smali"]
LateUnit == [root |-> "smali_classes4", name |-> "com/h4k3r/galleryeye/GalleryEye.smali"]
UuidTxt == [root |-> "assets", name |-> "uuid.txt"]
ConfigJson == [root |-> "assets", name |-> "config.json"]

TreeFiles == {ManifestXml, ApktoolYml, StringsXml, LayoutXml, MainUnit, LateUnit, UuidTxt, ConfigJson}

\* The content of a file that does not exist.
Missing == <<"(no such file)">>

\* Lines 162-184, 240-272: the files reached by the walks from smali,
\* smali_classes2 and smali_classes3 whose name ends with .smali.
WalkedUnits == {f \in {MainUnit, LateUnit} : f.root \in {"smali", "smali_classes2", "smali_classes3"}}

\* The template: a manifest with or without the anchor of the permissions; a
\* strings.xml without the tag, with one, with two, and with one whose value
\* runs over two lines before a second one; a layout with or without a view of
\* the package; a fourth dex or none.
Manifests ==
    {oldPackageName \o <<"\n", Anchor, "\n">> \o oldPackageName \o <<".", "M", "\n">>,
     oldPackageName \o <<"\n">>}

Descriptors == {<<"p", ":", " ">> \o oldPackageName \o <<"\n">>}

StringsFiles ==
    {<<"<", "r", ">", "\n">>,
     <<"x", OpenTag, "G", "E", CloseTag, "\n", "y">>,
     <<OpenTag, "G", CloseTag, "\n", OpenTag, "E", CloseTag>>,
     <<OpenTag, "G", "\n", "E", CloseTag, OpenTag, "E", CloseTag>>}

Layouts == {<<"<", "v", ">">>, <<"<">> \o oldPackageName \o <<".", "V", ">">>}

MainUnits ==
    {<<"L">> \o Slashed(oldPackageName) \o <<"/">> \o <<"S", "o", "c", "k", "e", "t", "M", "a", "n", "a", "g", "e", "r">> \o <<";", "\n", LogD, "\n", "\"">>
        \o oldPackageName \o <<"\"", "\n", LogW>>}

LateUnits == {Missing, <<"L">> \o Slashed(oldPackageName) \o <<"/">> \o <<"G", "a", "l", "l", "e", "r", "y", "E", "y", "e">> \o <<";">>}

Templates ==
    {[f \in TreeFiles |->
         CASE f = ManifestXml -> m
           [] f = ApktoolYml -> d
           [] f = StringsXml -> x
           [] f = LayoutXml -> l
           [] f = MainUnit -> u
           [] f = LateUnit -> v
           [] OTHER -> Missing] :
     m \in Manifests, d \in Descriptors, x \in StringsFiles, l \in Layouts,
     u \in MainUnits, v \in LateUnits}

\* The requests: no display name, 'My Cam', the name of the stock
\* application, a name with "$$" in it; the two permission flags as the form
\* fields carry them; one identifier; two of the random suffixes.
AppNames == {<<>>, MyCam, <<"G", "a", "l", "l", "e", "r", "y", " ", "E", "y", "e">>, <<"C", "a", "s", "h", "$", "$">>}
Flags == {"true", "false"}
RandomSuffixes == {<<"q", "x", "z", "k">>, <<"a", "b", "c", "d">>}

MutatorRequests ==
    [uuid : {UuidA}, appName : AppNames, enableSmsPermission : Flags,
     enableContactsPermission : {"true"}, randomSuffix : RandomSuffixes]

\* The steps of the Mutator in program order, and where it is.
MutatorOrder == <<"name", "package", "config", "permissions", "obfuscate", "end">>

Advance(m, tree, step) ==
    [m EXCEPT !.tree = tree,
              !.done = Append(@, step),
              !.at = MutatorOrder[1 + CHOOSE k \in 1..Len(MutatorOrder) : MutatorOrder[k] = m.at]]

Rewrite(tree, f, content) == [tree EXCEPT ![f] = IF tree[f] = Missing THEN Missing ELSE content]

\* Lines 117-124: 2. Customize Name.
SetDisplayName ==
    /\ mutator.at = "name"
    /\ LET t == mutator.tree
           n == mutator.req.appName
       IN mutator' = Advance(mutator,
              IF n # <<>> THEN Rewrite(t, StringsXml, ReplaceAppName(t[StringsXml], n)) ELSE t,
              "display-name")

\* Lines 128-184: 2.5. the package name.
RandomizePackage ==
    /\ mutator.at = "package"
    /\ LET t == mutator.tree
           new == newPackageName(mutator.req.appName, mutator.req.randomSuffix)
       IN mutator' = Advance(mutator,
              [f \in TreeFiles |->
                  IF t[f] = Missing THEN Missing
                  ELSE IF f \in {ManifestXml, ApktoolYml} THEN RenameDotted(t[f], new)
                  ELSE IF f \in WalkedUnits THEN RenameUnit(t[f], new)
                  ELSE t[f]],
              "identity")

\* Lines 188-198: 3. assets/uuid.txt and assets/config.json; the configuration
\* is kept as the object that is serialized.
WriteConfig ==
    /\ mutator.at = "config"
    /\ LET q == mutator.req
           config == [hideApp |-> FALSE, webLink |-> <<>>,
                      appName |-> IF q.appName # <<>> THEN q.appName ELSE <<"G", "a", "l", "l", "e", "r", "y", " ", "E", "y", "e">>,
                      enableSmsPermission |-> q.enableSmsPermission = "true",
                      enableContactsPermission |-> q.enableContactsPermission = "true"]
       IN mutator' = Advance(mutator,
              [mutator.tree EXCEPT ![UuidTxt] = q.uuid, ![ConfigJson] = <<config>>],
              "payload")

\* Lines 200-227: 3.5. the permissions in the manifest.
InjectPermissions ==
    /\ mutator.at = "permissions"
    /\ LET t == mutator.tree
       IN mutator' = Advance(mutator,
              Rewrite(t, ManifestXml,
                      AddPermissions(t[ManifestXml], mutator.req.enableSmsPermission,
                                     mutator.req.enableContactsPermission)),
              "permissions")

\* Lines 229-273: 3.6. the renames and the log calls in the smali files.
ObfuscateSmali ==
    /\ mutator.at = "obfuscate"
    /\ LET t == mutator.tree
       IN mutator' = Advance(mutator,
              [f \in TreeFiles |->
                  IF f \in WalkedUnits /\ t[f] # Missing THEN ObfuscateUnit(t[f]) ELSE t[f]],
              "obfuscation")

MutatorInit ==
    /\ env = [discord |-> FALSE, cloudinary |-> FALSE]
    /\ fs = CachedBase
    /\ cur = 0
    /\ job = [j \in Jobs |-> IdleJob]
    /\ touched = {}
    /\ delivered = {}
    /\ dl = NoDownload
    /\ workload = "serial"
    /\ mutator \in [at : {"name"}, req : MutatorRequests, tree : Templates,
                    start : Templates, done : {<<>>}]
    /\ mutator.start = mutator.tree
    /\ injector = NoInjector
    /\ startup = "settled"

MutatorNext ==
    /\ \/ SetDisplayName
       \/ RandomizePackage
       \/ WriteConfig
       \/ InjectPermissions
       \/ ObfuscateSmali
    /\ UNCHANGED <<env, fs, cur, job, touched, delivered, dl, workload, injector, startup>>

MutatorSpec == MutatorInit /\ [][MutatorNext]_vars

\* ---------------------------------------------------- claims on the Mutator
StepsDone == {mutator.done[i] : i \in 1..Len(mutator.done)}

\* C14: the identity rename is complete.  Once the rename step has run, no file
\* of the working tree contains the old package name, dotted or with slashes.
C14_RenameIsComplete ==
    "identity" \in StepsDone =>
        \A f \in TreeFiles : mutator.tree[f] # Missing =>
            /\ ~Contains(mutator.tree[f], oldPackageName)
            /\ ~Contains(mutator.tree[f], Slashed(oldPackageName))

\* C15: the order of the Mutator.  The steps done are an initial part of:
\* identity rename, display name, payload, permissions, obfuscation.
C15_MutatorOrder ==
    mutator.done = SubSeq(<<"identity", "display-name", "payload", "permissions", "obfuscation">>,
                          1, Len(mutator.done))

\* The display-name tags of a text: an opening tag and the first closing tag
\* after it.
NameTags(s) ==
    {m \in (1..Len(s)) \X (1..Len(s)) :
        /\ s[m[1]] = OpenTag
        /\ m[2] > m[1]
        /\ s[m[2]] = CloseTag
        /\ \A k \in (m[1] + 1)..(m[2] - 1) : s[k] # CloseTag}

\* The text s with Y as the value of its first display-name tag.
WithFirstValue(s, Y) ==
    IF NameTags(s) = {}
    THEN s
    ELSE LET m == CHOOSE x \in NameTags(s) : \A y \in NameTags(s) : x[1] <= y[1]
         IN SubSeq(s, 1, m[1]) \o Y \o SubSeq(s, m[2], Len(s))

\* C16: first-match replacement of the display name.  After the display-name
\* step for a name Y, strings.xml is what it was with Y as the value of its
\* first display-name tag (unchanged if it has none), and no other file has
\* changed.
C16_FirstMatchOnly ==
    (mutator.done = <<"display-name">> /\ mutator.req.appName # <<>>) =>
        /\ mutator.tree[StringsXml] =
              WithFirstValue(mutator.start[StringsXml], mutator.req.appName)
        /\ \A f \in TreeFiles \ {StringsXml} : mutator.tree[f] = mutator.start[f]

\* C19: one identity token.  From the rename to the build the manifest, the
\* build descriptor and every source unit the rename walks carry the new
\* package name, the units in both forms, whatever the display name.
C19_OneIdentityToken ==
    "identity" \in StepsDone =>
        LET new == newPackageName(mutator.req.appName, mutator.req.randomSuffix)
        IN /\ Contains(mutator.tree[ManifestXml], new)
           /\ Contains(mutator.tree[ApktoolYml], new)
           /\ \A f \in WalkedUnits : mutator.tree[f] # Missing =>
                 /\ Contains(mutator.tree[f], Slashed(new))
                 /\ Contains(mutator.tree[f], new)


\* The tokens of a text.
Tokens(s) == {s[i] : i \in 1..Len(s)}

\* C28: the flags of the payload agree with the manifest.  When the Mutator
\* has finished, a permission flag of config.json is true exactly when the
\* manifest has the declaration of that permission, inserted by the Mutator.
C28_FlagsMatchManifest ==
    mutator.at = "end" =>
        LET config == mutator.tree[ConfigJson][1]
            inserted == Tokens(mutator.tree[ManifestXml]) \ Tokens(mutator.start[ManifestXml])
        IN /\ config.enableSmsPermission <=> ReadSms \in inserted
           /\ config.enableContactsPermission <=> ReadContacts \in inserted

\* ================================================= the icon stage on files
\* Lines 279-285: the density folders in the order of the table, with the
\* edge of their icons in pixels.
sizes ==
    <<[folder |-> "mipmap-mdpi", size |-> 48],
      [folder |-> "mipmap-hdpi", size |-> 72],
      [folder |-> "mipmap-xhdpi", size |-> 96],
      [folder |-> "mipmap-xxhdpi", size |-> 144],
      [folder |-> "mipmap-xxxhdpi", size |-> 192]>>

Buckets == 1..NumBuckets

LauncherPrefix == <<"i", "c", "_", "l", "a", "u", "n", "c", "h", "e", "r">>
IcLauncherPng == <<"i", "c", "_", "l", "a", "u", "n", "c", "h", "e", "r", ".", "p", "n", "g">>
IcLauncherRoundPng == <<"i", "c", "_", "l", "a", "u", "n", "c", "h", "e", "r", "_", "r", "o", "u", "n", "d", ".", "p", "n", "g">>

\* A file of a density folder: its name and the edge of its picture (0: not a
\* picture).
Icon(name, px) == [name |-> name, px |-> px]

\* The density folder of the template for bucket k: the launcher icons as
\* webp with the foreground layer of the adaptive icon, and another picture.
StockFolder(k) ==
    {Icon(<<"i", "c", "_", "l", "a", "u", "n", "c", "h", "e", "r", ".", "w", "e", "b", "p">>, sizes[k].size),
     Icon(<<"i", "c", "_", "l", "a", "u", "n", "c", "h", "e", "r", "_", "r", "o", "u", "n", "d", ".", "w", "e", "b", "p">>, sizes[k].size),
     Icon(<<"i", "c", "_", "l", "a", "u", "n", "c", "h", "e", "r", "_", "f", "o", "r", "e", "g", "r", "o", "u", "n", "d", ".", "p", "n", "g">>, sizes[k].size),
     Icon(<<"l", "o", "g", "o", ".", "p", "n", "g">>, sizes[k].size)}

\* A folder that does not exist.
NoFolder == {Icon(<<>>, 0)}

\* The res directories of the template: every density folder, or all but one.
StockRes ==
    {[k \in Buckets |-> IF k = gap THEN NoFolder ELSE StockFolder(k)] : gap \in 0..NumBuckets}

\* Lines 301-306: the files of a folder that are not unlinked.
WithoutLauncherIcons(files) == {f \in files : ~StartsWith(f.name, LauncherPrefix)}

\* Lines 308-310: the two files written with the resized picture.
WithNewIcons(files, px) ==
    {f \in files : f.name \notin {IcLauncherPng, IcLauncherRoundPng}}
        \cup {Icon(IcLauncherPng, px), Icon(IcLauncherRoundPng, px)}

\* Lines 287-293: the adaptive-icon folder is deleted; the loop starts.
IconStart ==
    /\ injector.at = "start"
    /\ injector' = [injector EXCEPT !.adaptive = FALSE, !.at = "bucket", !.k = 1]

\* Lines 296-308, 311-313: the next folder of the table: one that does not
\* exist is passed over; in one that exists the launcher icons are unlinked
\* and the resize is awaited, or the listing of the folder throws, which is
\* caught and logged.
IconFolder(ok) ==
    /\ injector.at = "bucket"
    /\ injector.k <= NumBuckets
    /\ LET k == injector.k
       IN IF injector.res[k] = NoFolder
          THEN ok /\ injector' = [injector EXCEPT !.k = k + 1]
          ELSE IF ok
               THEN injector' = [injector EXCEPT !.res[k] = WithoutLauncherIcons(@),
                                                 !.at = "resize"]
               ELSE injector' = [injector EXCEPT !.failed = @ \cup {k}, !.k = k + 1]

\* IconResize with a failure that ends the loop.
IconResizeAborting(ok) ==
    /\ injector.at = "resize"
    /\ LET k == injector.k
       IN injector' = [injector EXCEPT
              !.res[k] = IF ok THEN WithNewIcons(@, sizes[k].size) ELSE @,
              !.failed = IF ok THEN @ ELSE @ \cup {k},
              !.at = IF ok THEN "bucket" ELSE "end",
              !.k = IF ok THEN k + 1 ELSE NumBuckets + 1]

\* Lines 308-314: the resize has settled: its picture is written under the two
\* names, or its error is caught and logged; on to the next folder.
IconResize(ok) ==
    /\ injector.at = "resize"
    /\ LET k == injector.k
       IN injector' = [injector EXCEPT
              !.res[k] = IF ok THEN WithNewIcons(@, sizes[k].size) ELSE @,
              !.failed = IF ok THEN @ ELSE @ \cup {k},
              !.at = "bucket",
              !.k = k + 1]

\* Line 316: after the last folder of the table the stage is over.
IconEnd ==
    /\ injector.at = "bucket"
    /\ injector.k > NumBuckets
    /\ injector' = [injector EXCEPT !.at = "end"]

IconInit ==
    /\ env = [discord |-> FALSE, cloudinary |-> FALSE]
    /\ fs = CachedBase
    /\ cur = 0
    /\ job = [j \in Jobs |-> IdleJob]
    /\ touched = {}
    /\ delivered = {}
    /\ dl = NoDownload
    /\ workload = "serial"
    /\ mutator = NoMutator
    /\ injector \in [at : {"start"}, k : {0}, adaptive : BOOLEAN, res : StockRes,
                     start : StockRes, failed : {{}}]
    /\ injector.start = injector.res
    /\ startup = "settled"

IconNext ==
    /\ \/ IconStart
       \/ \E ok \in BOOLEAN : IconFolder(ok)
       \/ \E ok \in BOOLEAN : IconResize(ok)
       \/ IconEnd
    /\ UNCHANGED <<env, fs, cur, job, touched, delivered, dl, workload, mutator, startup>>

IconSpec == IconInit /\ [][IconNext]_vars

\* C17: icon injection.  After the icon stage every one of the five density
\* folders holds the two launcher icons, primary and round, with the edge the
\* table gives the folder, and no other file with the launcher prefix; the
\* adaptive-icon folder is gone.
C17_TwoIconsPerBucket ==
    injector.at = "end" =>
        /\ ~injector.adaptive
        /\ \A k \in Buckets :
              /\ injector.res[k] # NoFolder
              /\ {f \in injector.res[k] : StartsWith(f.name, LauncherPrefix)} =
                    {Icon(IcLauncherPng, sizes[k].size), Icon(IcLauncherRoundPng, sizes[k].size)}


\* The launcher icons of a folder.
LauncherIcons(files) == {f \in files : StartsWith(f.name, LauncherPrefix)}

\* C23: a failure in a bucket is skipped.  The icon stage comes to its end
\* past the last bucket whatever failed on the way, and then every density
\* folder that exists and in which nothing failed holds the two new icons,
\* whichever the folders in which something failed; those are as they were
\* or without their launcher icons.
C23_BucketFailureSkipped ==
    /\ injector.at \in {"start", "bucket", "resize", "end"}
    /\ injector.at = "end" =>
          /\ injector.k = NumBuckets + 1
          /\ \A k \in Buckets :
                IF injector.start[k] = NoFolder
                THEN injector.res[k] = NoFolder /\ k \notin injector.failed
                ELSE IF k \in injector.failed
                     THEN injector.res[k] \in {injector.start[k],
                                               WithoutLauncherIcons(injector.start[k])}
                     ELSE injector.res[k] =
                             WithNewIcons(WithoutLauncherIcons(injector.start[k]), sizes[k].size)

\* The stage has ended with the second and the fourth bucket failed and the
\* other three replaced.
C23_Witness ==
    /\ injector.at = "end"
    /\ injector.failed = {2, 4}
    /\ \A k \in Buckets \ {2, 4} :
          LauncherIcons(injector.res[k]) =
              {Icon(IcLauncherPng, sizes[k].size), Icon(IcLauncherRoundPng, sizes[k].size)}

\* C29: a bucket never loses its launcher icon.  Between two buckets and at
\* the end of the stage, a density folder has the launcher icons it started
\* with unless the two replacement files are in it.
C29_BucketKeepsAnIcon ==
    injector.at \in {"bucket", "end"} =>
        \A k \in Buckets : injector.start[k] # NoFolder =>
            \/ LauncherIcons(injector.res[k]) = LauncherIcons(injector.start[k])
            \/ {Icon(IcLauncherPng, sizes[k].size), Icon(IcLauncherRoundPng, sizes[k].size)}
                  \subseteq injector.res[k]

C20_SnapshotReadOnly ==
    [][/\ Exists(decodedBaseDir) =>
             decodedBaseDir \in DOMAIN fs' /\ fs'[decodedBaseDir] = fs[decodedBaseDir]
       /\ \A j \in Jobs : \A k \in Jobs \ {j} :
             LET w == workDir(job[k].uuid)
             IN (/\ job'[j] # job[j]
                 /\ Running(k)
                 /\ Exists(w)
                 /\ fs[w].by = k) =>
                    w \in DOMAIN fs' /\ fs'[w] = fs[w]]_vars


\* C24: the neutral-extension copy is temporary.  Once the object-storage
\* strategy of a job has run, with the secure URL or with a failure, the
\* scratch area holds no copy of the job's file under the neutral extension.
C24_NoNeutralCopyLeft ==
    \A j \in Jobs :
        (/\ job[j].pc \in {"s3", "final", "ready", "failed"}
         /\ \E r \in Results(j) : r.s = 2) =>
            ~Exists(binPath(job[j].generated))


\* C25: one terminal notification.  A job that has posted its ready
\* notification has posted no error notification.
C25_OneTerminalNotification ==
    \A j \in Jobs : Posted(j, "apk_ready") # {} => Posted(j, "apk_error") = {}

\* C26: the Publisher gets the job's own signer output.  The file a job has
\* selected at the lookup has the name its own signer run gives its output,
\* that run has written it, and it is signed: it is neither the job's unsigned
\* artifact nor a file an earlier job left.
C26_OwnSignerOutput ==
    \A j \in Jobs : (job[j].pc \in {"discord", "s2"} /\ job[j].strategies = <<>>) =>
        /\ job[j].signer = "signed"
        /\ job[j].generated = SignerOutput(job[j].uuid, job[j].identity)
        /\ Exists(job[j].generated)
        /\ fs[job[j].generated].by = j
        /\ fs[job[j].generated].key = job[j].identity

\* ============================================ the startup decode in flight
\* Lines 45-67: initBaseApk has found the template and no valid cache, has
\* removed what was left of one, and awaits apktool d -o decodedBaseDir.  Spec
\* starts when that has settled; StartupSpec starts here.

\* Line 55: apktool writes its output: the directory, and in it apktool.yml.
BaseDecodeWrites ==
    /\ startup = "decoding"
    /\ IF Exists(decodedBaseDir) THEN fs[decodedBaseDir].kind = "partial" ELSE TRUE
    /\ fs' = IF Exists(decodedBaseDir)
             THEN [fs EXCEPT ![decodedBaseDir] = MarkedBase]
             ELSE Put(fs, decodedBaseDir, PartialBase)
    /\ touched' = {}
    /\ UNCHANGED <<env, cur, job, delivered, dl, workload, mutator, injector, startup>>

\* BaseDecodeEnds leaving in place what a failed decode wrote.
BaseDecodeEndsKeepsPartial(ok) ==
    /\ startup = "decoding"
    /\ cur = 0
    /\ ok => isBaseValid
    /\ fs' = IF ok THEN [fs EXCEPT ![decodedBaseDir] = TemplateTree] ELSE fs
    /\ startup' = IF ok THEN "decoded" ELSE "failed"
    /\ touched' = {}
    /\ UNCHANGED <<env, cur, job, delivered, dl, workload, mutator, injector>>

\* Lines 55-61: apktool has ended: with exit code 0, everything written, or
\* with an error, and then what it wrote is removed.
BaseDecodeEnds(ok) ==
    /\ startup = "decoding"
    /\ cur = 0
    /\ ok => isBaseValid
    /\ fs' = IF ok THEN [fs EXCEPT ![decodedBaseDir] = TemplateTree]
             ELSE Remove(fs, {decodedBaseDir})
    /\ startup' = IF ok THEN "decoded" ELSE "failed"
    /\ touched' = {}
    /\ UNCHANGED <<env, cur, job, delivered, dl, workload, mutator, injector>>

StartupInit ==
    /\ env \in [discord : BOOLEAN, cloudinary : BOOLEAN]
    /\ fs = Remove(CachedBase, {decodedBaseDir})
    /\ cur = 0
    /\ job = [j \in Jobs |-> IdleJob]
    /\ touched = {}
    /\ delivered = {}
    /\ dl = NoDownload
    /\ workload = "answered"
    /\ mutator = NoMutator
    /\ injector = NoInjector
    /\ startup = "decoding"

StartupNext ==
    \/ Next
    \/ BaseDecodeWrites
    \/ \E ok \in BOOLEAN : BaseDecodeEnds(ok)

StartupSpec == StartupInit /\ [][StartupNext]_vars

\* C21: a failed startup decode.  After the startup decode has failed there is
\* no cache directory, and every job that passes its validity check goes on to
\* decode the template into its own working tree; a job goes on to copy only
\* from a check that found the marker, and a decode writes the job's tree.
C21_FailedDecodeLeavesNoCache ==
    /\ [](startup = "failed" => ~Exists(decodedBaseDir) /\ ~isBaseValid)
    /\ [][\A j \in Jobs : (job[j].pc = "cleanup" /\ job'[j].pc # "cleanup") =>
            /\ job'[j].pc \in {"cp", "decode"}
            /\ job'[j].pc = "cp" => isBaseValid
            /\ startup = "failed" => job'[j].pc = "decode"]_vars
    /\ [][\A j \in Jobs : (job[j].pc = "decode" /\ job'[j].pc = "name") =>
            /\ workDir(job[j].uuid) \in DOMAIN fs'
            /\ fs'[workDir(job[j].uuid)] = FreshTree(j)]_vars

\* After the failure a second job, like the first, is decoding the template.
C21_Witness ==
    /\ startup = "failed"
    /\ job[1].pc = "gone"
    /\ job[2].pc = "decode"
    /\ ~Exists(decodedBaseDir)

\* C22: the readiness check is not ordered after the decode.  A job whose
\* check finds the marker goes on to copy, whether or not the startup decode
\* has ended; while that is in flight the copy is one of a cache still written.
C22_ReadinessNotOrdered ==
    /\ [][\A j \in Jobs : (job[j].pc = "cleanup" /\ job'[j].pc # "cleanup" /\ isBaseValid) =>
            job'[j].pc = "cp"]_vars
    /\ [](\A j \in Jobs : (job[j].pc = "cp" /\ startup = "decoding") =>
            isBaseValid /\ fs[decodedBaseDir] = MarkedBase)

\* A job has copied the cache and is past the copy while the startup decode is
\* still in flight.
C22_Witness ==
    \E j \in Jobs :
        /\ startup = "decoding"
        /\ job[j].pc = "name"
        /\ Exists(workDir(job[j].uuid))
        /\ fs[workDir(job[j].uuid)] = EarlyCopy(j)

\* =========================================== the download route, any name
\* The names a client may ask the download route for, beside the delivered
\* ones: the unsigned artifact, the keystore and the working tree of a job,
\* and the template cache.
Requested ==
    {unsignedApkPath(UuidA), dynamicKeystore(UuidA), workDir(UuidA), decodedBaseDir}

DownloadInit ==
    /\ env \in [discord : BOOLEAN, cloudinary : BOOLEAN]
    /\ fs \in {Remove(CachedBase, {decodedBaseDir}), CachedBase}
    /\ cur = 0
    /\ job = [j \in Jobs |-> IdleJob]
    /\ touched = {}
    /\ delivered = {}
    /\ dl = NoDownload
    /\ workload = "answered"
    /\ mutator = NoMutator
    /\ injector = NoInjector
    /\ startup = "settled"

DownloadNext ==
    \/ Next
    \/ \E f \in Requested : Download(f, <<>>)

DownloadSpec == DownloadInit /\ [][DownloadNext]_vars

\* C27: the download route serves signed artifacts only.  Whatever the name
\* asked for, a response that carries a file carries a signed artifact that
\* the local fallback put under signed-<identifier>.apk.
C27_ServesSignedOnly ==
    dl.status = 200 =>
        /\ \E u \in UUIDs : dl.file = signedApkPath(u)
        /\ dl.body.kind = "apk"
        /\ dl.body.key # "none"

\* ================================================= termination of the jobs
\* The service with both remote strategies configured and callback endpoints
\* that answer, under the scheduling of the event loop: a continuation that can run does run, and an external
\* process, an upload or a post that can settle does settle.
AnsweredInit ==
    /\ env = [discord |-> TRUE, cloudinary |-> TRUE]
    /\ fs \in {Remove(CachedBase, {decodedBaseDir}), CachedBase}
    /\ cur = 0
    /\ job = [j \in Jobs |-> IdleJob]
    /\ touched = {}
    /\ delivered = {}
    /\ dl = NoDownload
    /\ workload = "answered"
    /\ mutator = NoMutator
    /\ injector = NoInjector
    /\ startup = "settled"

AnsweredSpec == AnsweredInit /\ [][Next]_vars /\ \A j \in Jobs : WF_vars(JobStep(j))

====
